---------------------------- MODULE Spec2Model ----------------------------
(***************************************************************************)
(* A model of Invoice_analyzer.py: the line-level field extractor          *)
(* (safe_float, parse_tax_amount, split_category_item, parse_invoice_pdf), *)
(* the parse-button handler with its per-batch deduplication, and the      *)
(* aggregation views computed by the display section.                      *)
(*                                                                         *)
(* Text is a sequence of one-character strings.  Chinese words of the      *)
(* source are written with ASCII stand-ins, one letter per character:      *)
(*   "免税" = <<"m","s">>   "不征" = <<"b","z">>   "零税率" = <<"l","s","v">>  *)
(*   "未分类" = <<"w","f","l">>                                              *)
(* Numbers are fixed-point with three decimals: the integer n stands for   *)
(* the float n / 1000.  A float is None (Python None), NaN (float nan) or  *)
(* a number.                                                               *)
(***************************************************************************)
EXTENDS Integers, Sequences, FiniteSets, TLC

VARIABLES
    arg,            \* input of the pure function under check
    res,            \* its result
    fpc,            \* "call" before the function ran, "done" after, "off" when unused
    uploaded_files, \* the file_uploader widget: the documents of the batch, in order
    df_all,         \* st.session_state["df_all"]
    n_files,        \* st.session_state["n_files"]
    pc,             \* "idle", "loop" (inside the button handler), "display"
    pos,            \* position of the for loop in uploaded_files
    df_one,         \* the frame parse_invoice_pdf returned for the current file
    all_dfs,        \* the handler's list of accepted frames
    seen_invoices,  \* the handler's set of identity keys
    accepted,       \* accepted[k]: position in uploaded_files of the frame all_dfs[k]
    msgs,           \* st.warning / st.error / st.success of the last script run
    view,           \* what the display section rendered
    budget          \* documents that may still be uploaded

fvars == <<arg, res, fpc>>
bvars == <<uploaded_files, df_all, n_files, pc, pos, df_one, all_dfs, seen_invoices,
           accepted, msgs, view, budget>>
vars == <<arg, res, fpc, uploaded_files, df_all, n_files, pc, pos, df_one, all_dfs,
          seen_invoices, accepted, msgs, view, budget>>

---------------------------------------------------------------------------
(* Values *)

None == [k |-> "none", v |-> 0]
NaN == [k |-> "nan", v |-> 0]
Num(n) == [k |-> "num", v |-> n]

IsNum(x) == x.k = "num"

\* The element of a one-element set.  { e(x) : x \in {v} } names the value v
\* once: TLC may evaluate a LET definition anew at each of its uses.
Only(S) == CHOOSE x \in S : TRUE

\* Decimal places the fixed-point numbers keep.
FracDigits == 3

RECURSIVE Pow10(_)
Pow10(n) == IF n = 0 THEN 1 ELSE 10 * Pow10(n - 1)

Scale == Pow10(FracDigits)

---------------------------------------------------------------------------
(* Text helpers: str.strip, str.replace(",", ""), str.split, substring *)

Digits == {"0", "1", "2", "3", "4", "5", "6", "7", "8", "9"}

DigitVal(c) ==
    CASE c = "0" -> 0 [] c = "1" -> 1 [] c = "2" -> 2 [] c = "3" -> 3
      [] c = "4" -> 4 [] c = "5" -> 5 [] c = "6" -> 6 [] c = "7" -> 7
      [] c = "8" -> 8 [] c = "9" -> 9

IsSpace(c) == c = " "

RECURSIVE LStrip(_)
LStrip(s) == IF s # <<>> /\ IsSpace(Head(s)) THEN LStrip(Tail(s)) ELSE s

RECURSIVE RStrip(_)
RStrip(s) ==
    IF s # <<>> /\ IsSpace(s[Len(s)]) THEN RStrip(SubSeq(s, 1, Len(s) - 1)) ELSE s

Strip(s) == RStrip(LStrip(s))

RECURSIVE RemoveCommas(_)
RemoveCommas(s) ==
    IF s = <<>> THEN <<>>
    ELSE IF Head(s) = "," THEN RemoveCommas(Tail(s))
    ELSE <<Head(s)>> \o RemoveCommas(Tail(s))

\* kw in s (Python's substring test)
Contains(s, kw) ==
    \E i \in 1..(Len(s) - Len(kw) + 1) : SubSeq(s, i, i + Len(kw) - 1) = kw

\* str.split(): the maximal runs of non-space characters, in order.
RECURSIVE SplitFrom(_, _)
SplitFrom(s, cur) ==
    IF s = <<>> THEN (IF cur = <<>> THEN <<>> ELSE <<cur>>)
    ELSE IF IsSpace(Head(s))
         THEN (IF cur = <<>> THEN <<>> ELSE <<cur>>) \o SplitFrom(Tail(s), <<>>)
         ELSE SplitFrom(Tail(s), Append(cur, Head(s)))

Split(s) == SplitFrom(s, <<>>)

---------------------------------------------------------------------------
(* safe_float *)

AllDigits(s) == \A i \in 1..Len(s) : s[i] \in Digits

RECURSIVE DigitsVal(_)
DigitsVal(s) ==
    IF s = <<>> THEN 0 ELSE DigitsVal(SubSeq(s, 1, Len(s) - 1)) * 10 + DigitVal(s[Len(s)])

\* The fraction digits f as a count of 1/Scale: digits past FracDigits are dropped.
FracVal(f) ==
    IF Len(f) >= FracDigits THEN DigitsVal(SubSeq(f, 1, FracDigits))
    ELSE DigitsVal(f) * Pow10(FracDigits - Len(f))

\* An unsigned decimal numeral: digits, at most one point, at least one digit.
UnsignedFloat(s) ==
    IF \E i \in 1..Len(s) : s[i] = "."
    THEN LET p == CHOOSE i \in 1..Len(s) : s[i] = "."
             ip == SubSeq(s, 1, p - 1)
             fp == SubSeq(s, p + 1, Len(s))
         IN  IF AllDigits(ip) /\ AllDigits(fp) /\ Len(ip) + Len(fp) >= 1
             THEN Num(DigitsVal(ip) * Scale + FracVal(fp))
             ELSE None
    ELSE IF s # <<>> /\ AllDigits(s) THEN Num(DigitsVal(s) * Scale) ELSE None

\* Python's float(s) on a stripped string of the model's alphabet; None stands
\* for the ValueError.  "nan" parses, to the float nan.
PyFloat(s) ==
    IF s = <<"n", "a", "n">> THEN NaN
    ELSE IF s # <<>> /\ Head(s) = "-"
         THEN LET u == UnsignedFloat(Tail(s))
              IN  IF IsNum(u) THEN Num(0 - u.v) ELSE None
    ELSE IF s # <<>> /\ Head(s) = "+" THEN UnsignedFloat(Tail(s))
    ELSE UnsignedFloat(s)

safe_float(x) ==
    Only({ IF s = <<>> THEN None ELSE PyFloat(s) : s \in { RemoveCommas(Strip(x)) } })

---------------------------------------------------------------------------
(* parse_tax_amount *)

\* "***", "--", "-", "*" and the empty string; the full-width and long-dash
\* glyphs of the source are written "W" and "D".
missing_like ==
    { <<>>, <<"*", "*", "*">>, <<"W", "W", "W">>, <<"-", "-">>, <<"-">>,
      <<"D">>, <<"*">> }

zero_rate_keywords ==
    { <<"m", "s">>, <<"b", "z">>, <<"l", "s", "v">>, <<"0", "%">> }

\* A resolver that takes every unparsed token for a placeholder.
TaxOfAnyToken(token_str, val, rate_str) ==
    IF val # None THEN val
    ELSE IF \E kw \in zero_rate_keywords : Contains(rate_str, kw) THEN Num(0)
    ELSE None

\* The result for the stripped token, its safe_float val and the stripped rate.
TaxOf(token_str, val, rate_str) ==
    IF val # None THEN val
    ELSE IF token_str \in missing_like
         THEN IF \E kw \in zero_rate_keywords : Contains(rate_str, kw)
              THEN Num(0)
              ELSE None
    ELSE None

parse_tax_amount(token, tax_rate) ==
    Only({ TaxOf(token_str, val, rate_str) :
             token_str \in { Strip(token) },
             val \in { safe_float(Strip(token)) },
             rate_str \in { Strip(tax_rate) } })

---------------------------------------------------------------------------
(* Optional text: Python None or a str *)

NoStr == [k |-> "none", s |-> <<>>]
Str(s) == [k |-> "str", s |-> s]

---------------------------------------------------------------------------
(* re.match(r"\*(?P<cat>[^*]+)\*(?P<item>.+)", s) and split_category_item *)

\* The closing asterisk of a match: the first asterisk after position 1, with
\* at least one character before it and one after it.
ClosingStars(s) ==
    { j \in 3..(Len(s) - 1) : s[j] = "*" /\ \A k \in 2..(j - 1) : s[k] # "*" }

CatItemMatch(s) ==
    IF s # <<>> /\ s[1] = "*" /\ ClosingStars(s) # {}
    THEN LET j == CHOOSE x \in ClosingStars(s) : TRUE
         IN  [ok |-> TRUE, cat |-> SubSeq(s, 2, j - 1), item |-> SubSeq(s, j + 1, Len(s))]
    ELSE [ok |-> FALSE, cat |-> <<>>, item |-> <<>>]

\* "未分类"
Uncategorized == <<"w", "f", "l">>

split_category_item(name0) ==
    Only({ IF m.ok THEN [category |-> Strip(m.cat), item |-> Strip(m.item)]
           ELSE [category |-> Uncategorized, item |-> Strip(name0)] :
             m \in { CatItemMatch(Strip(name0)) } })

---------------------------------------------------------------------------
(* parse_invoice_pdf: one line *)

\* header_info of parse_header_text: each key present (Str) or absent (NoStr).
\* Keys: 发票号码, 开票日期, 购买方名称, 销售方名称, 购买方税号, 销售方税号.
NoHeader ==
    [invoice_no |-> NoStr, issue_date |-> NoStr, buyer_name |-> NoStr,
     seller_name |-> NoStr, buyer_tax |-> NoStr, seller_tax |-> NoStr]

\* float + float
FloatAdd(a, b) == IF a = NaN \/ b = NaN THEN NaN ELSE Num(a.v + b.v)

\* Indices of the middle tokens that safe_float accepts, ascending.
RECURSIVE NumIndicesFrom(_, _)
NumIndicesFrom(mid, i) ==
    IF i > Len(mid) THEN <<>>
    ELSE (IF safe_float(mid[i]) # None THEN <<i>> ELSE <<>>) \o NumIndicesFrom(mid, i + 1)

num_indices(middle_tokens) == NumIndicesFrom(middle_tokens, 1)

\* An extractor that takes the first two numeric tokens as quantity and price.
MiddleFoundFirstTwo(middle_tokens, ni) ==
    [unit |-> IF Len(ni) >= 1 /\ ni[1] - 1 >= 1
              THEN Str(middle_tokens[ni[1] - 1]) ELSE NoStr,
     qty |-> IF Len(ni) >= 1 THEN safe_float(middle_tokens[ni[1]]) ELSE None,
     price |-> IF Len(ni) >= 2 THEN safe_float(middle_tokens[ni[2]]) ELSE None]

\* unit / qty / price found from the numeric tokens at indices ni
\* (source lines 159-174).
MiddleFound(middle_tokens, ni) ==
    LET n == Len(ni)
        idx_qty == IF n >= 2 THEN ni[n - 1] ELSE IF n = 1 THEN ni[1] ELSE 0
    IN  [unit |-> IF n >= 1 /\ idx_qty - 1 >= 1
                  THEN Str(middle_tokens[idx_qty - 1]) ELSE NoStr,
         qty |-> IF n >= 1 THEN safe_float(middle_tokens[idx_qty]) ELSE None,
         price |-> IF n >= 2 THEN safe_float(middle_tokens[ni[n]]) ELSE None]

\* An extractor without the fallback.
UnitFallbackNone(found, middle_tokens) == found

\* The fallback of source lines 176-178: the first middle token as the unit.
UnitFallback(found, middle_tokens) ==
    IF found.unit = NoStr /\ middle_tokens # <<>>
    THEN [found EXCEPT !.unit = Str(middle_tokens[1])]
    ELSE found

\* unit / qty / price of the middle region (source lines 152-178).
Middle(middle_tokens) ==
    IF middle_tokens = <<>>
    THEN [unit |-> NoStr, qty |-> None, price |-> None]
    ELSE Only({ UnitFallback(found, middle_tokens) :
                  found \in { Only({ MiddleFound(middle_tokens, ni) :
                                       ni \in { num_indices(middle_tokens) } }) } })

\* 含税价: gross (source lines 181-187); None is "is None", NaN is a float.
Gross(base_amount, tax_amount) ==
    IF base_amount # None /\ tax_amount # None THEN FloatAdd(base_amount, tax_amount)
    ELSE IF base_amount # None THEN base_amount
    ELSE None

\* The dict `data` built from the tokens of an accepted line (source lines
\* 138-205).  Columns: file 发票文件, page 页码, category 类别, item 商品, unit 单位,
\* qty 数量, price 单价, amount 金额, tax_rate 税率, tax_amount 税额, gross 含税价,
\* raw_name 原始项目名称, then the header keys.
TokensData(tokens, page_idx, file_name, header_info) ==
    Only({ [file |-> file_name,
            page |-> page_idx + 1,
            category |-> ci.category,
            item |-> ci.item,
            unit |-> mid.unit,
            qty |-> mid.qty,
            price |-> mid.price,
            amount |-> amount,
            tax_rate |-> tokens[Len(tokens) - 1],
            tax_amount |-> tax_amount,
            gross |-> Gross(amount, tax_amount),
            raw_name |-> tokens[1],
            invoice_no |-> header_info.invoice_no,
            issue_date |-> header_info.issue_date,
            buyer_name |-> header_info.buyer_name,
            seller_name |-> header_info.seller_name,
            buyer_tax |-> header_info.buyer_tax,
            seller_tax |-> header_info.seller_tax] :
         amount \in { safe_float(tokens[Len(tokens) - 2]) },
         tax_amount \in { parse_tax_amount(tokens[Len(tokens)], tokens[Len(tokens) - 1]) },
         mid \in { Middle(SubSeq(tokens, 2, Len(tokens) - 3)) },
         ci \in { split_category_item(tokens[1]) } })

\* The stripped line: skipped (<<>>) when blank, when it lacks the *类别*商品
\* shape, or when it has fewer than 4 tokens (source lines 124-136).
StrippedLineData(line, page_idx, file_name, header_info) ==
    IF line = <<>> THEN <<>>
    ELSE IF ~CatItemMatch(line).ok THEN <<>>
    ELSE Only({ IF Len(tokens) < 4 THEN <<>>
                ELSE <<TokensData(tokens, page_idx, file_name, header_info)>> :
                  tokens \in { Split(line) } })

LineData(raw_line, page_idx, file_name, header_info) ==
    Only({ StrippedLineData(line, page_idx, file_name, header_info) :
             line \in { Strip(raw_line) } })

\* pd.DataFrame(rows) then pd.to_numeric(errors="coerce") on the five numeric
\* columns: None becomes NaN, the missing value of a float column.
ToNumeric(x) == IF x = None THEN NaN ELSE x

ToFrameRow(data) ==
    [data EXCEPT !.qty = ToNumeric(@), !.price = ToNumeric(@), !.amount = ToNumeric(@),
                 !.tax_amount = ToNumeric(@), !.gross = ToNumeric(@)]

\* The rows one line contributes to the DataFrame parse_invoice_pdf returns.
LineRows(raw_line, page_idx, file_name, header_info) ==
    Only({ IF d = <<>> THEN <<>> ELSE <<ToFrameRow(d[1])>> :
             d \in { LineData(raw_line, page_idx, file_name, header_info) } })

---------------------------------------------------------------------------
(* Ordering of text: sorted() on str compares code points *)

Alphabet ==
    << " ", "%", "*", "+", ",", "-", ".", "0", "1", "2", "3", "4", "5", "6", "7", "8",
       "9", "D", "M", "W", "Y", "a", "b", "c", "d", "e", "f", "g", "h", "i", "j", "k",
       "l", "m", "n", "o", "p", "q", "r", "s", "t", "u", "v", "w", "x", "y", "z" >>

CharRank(c) == CHOOSE k \in 1..Len(Alphabet) : Alphabet[k] = c

RECURSIVE TextLess(_, _)
TextLess(s, t) ==
    IF t = <<>> THEN FALSE
    ELSE IF s = <<>> THEN TRUE
    ELSE IF Head(s) = Head(t) THEN TextLess(Tail(s), Tail(t))
    ELSE CharRank(Head(s)) < CharRank(Head(t))

\* sorted(S) for a set of texts
RECURSIVE SortedTexts(_)
SortedTexts(S) ==
    IF S = {} THEN <<>>
    ELSE LET m == CHOOSE x \in S : \A y \in S \ {x} : TextLess(x, y)
         IN  <<m>> \o SortedTexts(S \ {m})

SeqToSet(q) == { q[k] : k \in 1..Len(q) }

\* The sequences over S of length n or less
RECURSIVE SeqsUpTo(_, _)
SeqsUpTo(S, n) ==
    IF n = 0 THEN { <<>> }
    ELSE LET shorter == SeqsUpTo(S, n - 1)
         IN  shorter \cup { Append(q, x) : q \in shorter, x \in S }

---------------------------------------------------------------------------
(* format_date_short; 年 月 日 are written "Y" "M" "D" *)

DigitChar(n) ==
    CASE n = 0 -> "0" [] n = 1 -> "1" [] n = 2 -> "2" [] n = 3 -> "3" [] n = 4 -> "4"
      [] n = 5 -> "5" [] n = 6 -> "6" [] n = 7 -> "7" [] n = 8 -> "8" [] n = 9 -> "9"

\* f"{n:02d}" for n < 100
Pad2(n) == <<DigitChar(n \div 10), DigitChar(n % 10)>>

\* \d{1,2} followed by the mark, matched at position p: the number of digits, or 0.
DigitsThenMark(s, p, mark) ==
    IF Len(s) >= p + 2 /\ s[p] \in Digits /\ s[p + 1] \in Digits /\ s[p + 2] = mark THEN 2
    ELSE IF Len(s) >= p + 1 /\ s[p] \in Digits /\ s[p + 1] = mark THEN 1
    ELSE 0

format_date_short(raw) ==
    IF raw = <<>> THEN <<>>
    ELSE LET s == Strip(raw)
             yearOk == Len(s) >= 5 /\ AllDigits(SubSeq(s, 1, 4)) /\ s[5] = "Y"
             nm == IF yearOk THEN DigitsThenMark(s, 6, "M") ELSE 0
             nd == IF nm > 0 THEN DigitsThenMark(s, 6 + nm + 1, "D") ELSE 0
         IN  IF nd > 0
             THEN SubSeq(s, 1, 4) \o <<"-">> \o Pad2(DigitsVal(SubSeq(s, 6, 5 + nm)))
                  \o <<"-">> \o Pad2(DigitsVal(SubSeq(s, 7 + nm, 6 + nm + nd)))
             ELSE s

---------------------------------------------------------------------------
(* parse_invoice_pdf: a whole document *)

\* An uploaded document: its file name, the header_info parse_header_text finds
\* on its first page, and its pages, each the lines of extract_text().splitlines().

RECURSIVE PageRows(_, _, _, _)
PageRows(lines, page_idx, file_name, header_info) ==
    IF lines = <<>> THEN <<>>
    ELSE LineRows(Head(lines), page_idx, file_name, header_info)
         \o PageRows(Tail(lines), page_idx, file_name, header_info)

RECURSIVE PagesRows(_, _, _, _)
PagesRows(pages, page_idx, file_name, header_info) ==
    IF page_idx >= Len(pages) THEN <<>>
    ELSE PageRows(pages[page_idx + 1], page_idx, file_name, header_info)
         \o PagesRows(pages, page_idx + 1, file_name, header_info)

\* pdf.pages[0] raises IndexError on a document without pages; otherwise the
\* rows of every page in order (an empty frame when no line matched).
parse_invoice_pdf(f) ==
    IF f.pages = <<>> THEN [raised |-> TRUE, rows |-> <<>>]
    ELSE [raised |-> FALSE, rows |-> PagesRows(f.pages, 0, f.name, f.header)]

---------------------------------------------------------------------------
(* The identity key of the batch loop (source lines 288-305) *)

\* df_one[col].dropna().iloc[0] when any value is present, else None
RECURSIVE FirstPresent(_)
FirstPresent(vals) ==
    IF vals = <<>> THEN NoStr
    ELSE IF Head(vals) # NoStr THEN Head(vals) ELSE FirstPresent(Tail(vals))

Truthy(x) == x # NoStr /\ x.s # <<>>

\* A key that leaves the file name out of the fallback.
KeyOfNameless(invoice_no, issue_date, buyer_name, seller_name, fname) ==
    IF Truthy(invoice_no) \/ Truthy(issue_date) \/ Truthy(buyer_name) \/ Truthy(seller_name)
    THEN <<invoice_no, issue_date, buyer_name, seller_name>>
    ELSE <<"FILE_ONLY", <<>>>>

\* The key for the four first-present header values
KeyOf(invoice_no, issue_date, buyer_name, seller_name, fname) ==
    IF Truthy(invoice_no) \/ Truthy(issue_date) \/ Truthy(buyer_name) \/ Truthy(seller_name)
    THEN <<invoice_no, issue_date, buyer_name, seller_name>>
    ELSE <<"FILE_ONLY", fname>>

InvoiceKey(rows, fname) ==
    Only({ KeyOf(invoice_no, issue_date, buyer_name, seller_name, fname) :
             invoice_no \in { FirstPresent([k \in 1..Len(rows) |-> rows[k].invoice_no]) },
             issue_date \in { FirstPresent([k \in 1..Len(rows) |-> rows[k].issue_date]) },
             buyer_name \in { FirstPresent([k \in 1..Len(rows) |-> rows[k].buyer_name]) },
             seller_name \in { FirstPresent([k \in 1..Len(rows) |-> rows[k].seller_name]) } })

---------------------------------------------------------------------------
(* Aggregation over a frame: a sequence of rows; amount_col is 含税价 (gross) *)

RECURSIVE SumInts(_)
SumInts(q) == IF q = <<>> THEN 0 ELSE Head(q) + SumInts(Tail(q))

\* Series.sum(): missing values are skipped
SumGross(rows) ==
    SumInts([k \in 1..Len(rows) |-> IF IsNum(rows[k].gross) THEN rows[k].gross.v ELSE 0])

total_amount(rows) == SumGross(rows)

\* The first group of the largest amount: sort_values(ascending=False) keeps
\* equal amounts in the key order groupby produced.
RECURSIVE SortByAmountDesc(_)
SortByAmountDesc(g) ==
    IF g = <<>> THEN <<>>
    ELSE LET m == CHOOSE k \in 1..Len(g) :
                      /\ \A j \in 1..Len(g) : g[j].amount <= g[k].amount
                      /\ \A j \in 1..(k - 1) : g[j].amount < g[k].amount
         IN  <<g[m]>> \o SortByAmountDesc(SubSeq(g, 1, m - 1) \o SubSeq(g, m + 1, Len(g)))

\* df.groupby("类别")[amount_col].sum().reset_index().sort_values(amount_col,
\* ascending=False).reset_index(drop=True)
category_rollup(rows) ==
    Only({ SortByAmountDesc(
               [k \in 1..Len(keys) |->
                   [category |-> keys[k],
                    amount |-> SumGross(SelectSeq(rows, LAMBDA r : r.category = keys[k]))]]) :
             keys \in { SortedTexts({ rows[k].category : k \in 1..Len(rows) }) } })

has_date(rows) == \E k \in 1..Len(rows) : rows[k].issue_date # NoStr

\* 开票日期_短
ShortDate(r) == IF r.issue_date = NoStr THEN <<>> ELSE format_date_short(r.issue_date.s)

\* dim_col: 开票日期_短 when any row has a date, else 发票文件
DimOf(rows, r) == IF has_date(rows) THEN ShortDate(r) ELSE r.file

\* The columns df_all["类别"] and df_all[dim_col]
CategoryColumn(rows) == [k \in 1..Len(rows) |-> rows[k].category]

DimColumn(rows) ==
    Only({ [k \in 1..Len(rows) |-> IF hd THEN ShortDate(rows[k]) ELSE rows[k].file] :
             hd \in { has_date(rows) } })

date_values(rows) ==
    SortedTexts({ DimOf(rows, rows[k]) : k \in 1..Len(rows) } \ { <<>> })

\* Sum of the amounts of the rows whose index value is iv and column value cv;
\* index_of and column_of give the two values of each row.
CellSum(rows, index_of, column_of, iv, cv) ==
    SumInts([k \in 1..Len(rows) |->
                IF index_of[k] = iv /\ column_of[k] = cv /\ IsNum(rows[k].gross)
                THEN rows[k].gross.v ELSE 0])

\* The table with index idx and columns cols: each cell the sum of its rows'
\* amounts, 0 (fill_value) for a cell without rows.
PivotCells(rows, index_of, column_of, idx, cols) ==
    [index |-> idx,
     columns |-> cols,
     cell |-> [rc \in SeqToSet(idx) \X SeqToSet(cols) |->
                 CellSum(rows, index_of, column_of, rc[1], rc[2])]]

\* pd.pivot_table(values=amount_col, index=.., columns=.., aggfunc="sum",
\* fill_value=0): one row per index value, one column per column value, sorted.
PivotTable(rows, index_of, column_of) ==
    Only({ PivotCells(rows, index_of, column_of, idx, cols) :
             idx \in { SortedTexts(SeqToSet(index_of)) },
             cols \in { SortedTexts(SeqToSet(column_of)) } })

\* DataFrame.reindex(columns=cols): the named columns only, in that order
\* (a column the table lacks would hold missing values, which sum to 0).
Reindex(p, cols) ==
    [index |-> p.index,
     columns |-> cols,
     cell |-> [rc \in SeqToSet(p.index) \X SeqToSet(cols) |->
                 IF rc \in DOMAIN p.cell THEN p.cell[rc] ELSE 0]]

\* The 合计 column (row sums), then the 合计 row (the sums of every column, the
\* 合计 column included: its sum is the corner cell).
TotalsOf(p, row_total) ==
    [index |-> p.index, columns |-> p.columns, cell |-> p.cell,
     row_total |-> row_total,
     col_total |-> [c \in SeqToSet(p.columns) |->
                      SumInts([k \in 1..Len(p.index) |-> p.cell[<<p.index[k], c>>]])],
     grand |-> SumInts([k \in 1..Len(p.index) |-> row_total[p.index[k]]])]

WithTotals(p0) ==
    Only({ Only({ TotalsOf(p, row_total) :
                    row_total \in { [r \in SeqToSet(p.index) |->
                                       SumInts([k \in 1..Len(p.columns) |->
                                                  p.cell[<<r, p.columns[k]>>]])] } }) :
             p \in { p0 } })

\* Source lines 413-427: the table is cut to date_values before the totals.
PivotSumOf(p, dv) == WithTotals(IF dv # <<>> THEN Reindex(p, dv) ELSE p)

pivot_sum(rows) ==
    Only({ PivotSumOf(p, dv) :
             p \in { PivotTable(rows, CategoryColumn(rows), DimColumn(rows)) },
             dv \in { date_values(rows) } })

\* Source lines 434-445
pivot_view(rows) ==
    WithTotals(PivotTable(rows, DimColumn(rows), CategoryColumn(rows)))

EmptyPivot ==
    [index |-> <<>>, columns |-> <<>>, cell |-> <<>>, row_total |-> <<>>,
     col_total |-> <<>>, grand |-> 0]

---------------------------------------------------------------------------
(* 报销伙食费明细: the expense rollup (source lines 508-585) *)

\* Categories: 畜禽产品 cqcp, 肉及肉制品 rjrzp, 植物油 zwy, 调味品 twp, 谷物加工品 gwjgp,
\* 谷物细粉 gwxf, 海水产品 hscp, 蔬菜 sc, 水果 sg.  Buckets: 肉蛋禽, 粮油, 海鲜, 蔬菜.
\* "" stands for the missing value Series.map gives an unmapped category.
big_cat_map(c) ==
    CASE c = <<"c", "q", "c", "p">> -> "RouDanQin"
      [] c = <<"r", "j", "r", "z", "p">> -> "RouDanQin"
      [] c = <<"z", "w", "y">> -> "LiangYou"
      [] c = <<"t", "w", "p">> -> "LiangYou"
      [] c = <<"g", "w", "j", "g", "p">> -> "LiangYou"
      [] c = <<"g", "w", "x", "f">> -> "LiangYou"
      [] c = <<"h", "s", "c", "p">> -> "HaiXian"
      [] c = <<"s", "c">> -> "ShuCai"
      [] c = <<"s", "g">> -> "ShuCai"
      [] OTHER -> ""

order == <<"RouDanQin", "LiangYou", "HaiXian", "ShuCai">>

\* round(x, 2): to the nearest 1/100, a tie to the even neighbour.
Round2(v) ==
    LET u == Pow10(FracDigits - 2)
        q == v \div u
        r == v % u
    IN  IF 2 * r < u THEN q * u
        ELSE IF 2 * r > u THEN (q + 1) * u
        ELSE IF q % 2 = 0 THEN q * u ELSE (q + 1) * u

\* A rollup that keeps every record.
df_big_all(rows) == rows

\* df_big: the records whose category big_cat_map lists
df_big(rows) == SelectSeq(rows, LAMBDA r : big_cat_map(r.category) # "")

\* date_options: the non-empty 报销日期 values of df_big, sorted
DateOptionsOf(big) ==
    SortedTexts({ ShortDate(big[k]) : k \in 1..Len(big) } \ { <<>> })

date_options(rows) == DateOptionsOf(df_big(rows))

\* 金额（元）of one bucket: its sum over df_for_summary, 0 without rows, rounded
BucketAmount(df_for_summary, bucket) ==
    Round2(SumGross(SelectSeq(df_for_summary, LAMBDA r : big_cat_map(r.category) = bucket)))

\* The table of source lines 565-581 and food_total
ExpenseTable(df_for_summary) ==
    Only({ [shown |-> TRUE, selected |-> df_for_summary, table |-> table,
            food_total |-> SumInts([k \in 1..Len(table) |-> table[k].amount])] :
             table \in { [k \in 1..Len(order) |->
                            [no |-> k, bucket |-> order[k],
                             amount |-> BucketAmount(df_for_summary, order[k])]] } })

NoExpense == [shown |-> FALSE, selected |-> <<>>, table |-> <<>>, food_total |-> 0]

\* selected_dates and df_for_summary (source lines 539-561).  multiselect: the
\* dates the user leaves ticked, a subset of date_options.
ExpenseOf(big, opts, multiselect) ==
    IF big = <<>> THEN NoExpense
    ELSE Only({ IF df_for_summary = <<>> THEN NoExpense ELSE ExpenseTable(df_for_summary) :
                  df_for_summary \in
                    { IF opts # <<>>
                      THEN SelectSeq(big, LAMBDA r : ShortDate(r) \in
                               (IF Len(opts) = 1 \/ multiselect = {} THEN SeqToSet(opts)
                                ELSE multiselect))
                      ELSE big } })

expense_rollup(rows, multiselect) ==
    Only({ ExpenseOf(big, DateOptionsOf(big), multiselect) : big \in { df_big(rows) } })

---------------------------------------------------------------------------
(* The display section (source lines 333-585) *)

NoFrame == [k |-> "none", rows |-> <<>>]
Frame(rows) == [k |-> "frame", rows |-> rows]

\* "本次"
ThisTime == <<"b", "c">>

\* Nothing rendered: the script stopped before the display section.
BlankView ==
    [kind |-> "blank", total_amount |-> 0, summary |-> <<>>, date_label |-> <<>>,
     pivot_sum |-> EmptyPivot, pivot_view |-> EmptyPivot, by_value |-> <<>>,
     expense |-> NoExpense]

\* n_files <= 1 (source lines 345-366)
SingleView(base, rows) ==
    [base EXCEPT !.kind = "single",
                 !.summary = category_rollup(rows),
                 !.date_label =
                     IF has_date(rows)
                     THEN format_date_short(
                              FirstPresent([k \in 1..Len(rows) |-> rows[k].issue_date]).s)
                     ELSE ThisTime]

\* Several files with one date: handled_special (source lines 384-399)
OneDateView(base, rows, dv) ==
    [base EXCEPT !.kind = "one_date",
                 !.summary = category_rollup(rows),
                 !.date_label = dv[1]]

\* The cross-tabulation, its transposed view and the rollup of each single
\* date or file (source lines 409-501)
PivotView(base, rows, dv) ==
    [base EXCEPT !.kind = "pivot",
                 !.pivot_sum = pivot_sum(rows),
                 !.pivot_view = pivot_view(rows),
                 !.by_value = [d \in SeqToSet(dv) |->
                                 category_rollup(SelectSeq(rows,
                                     LAMBDA r : DimOf(rows, r) = d))]]

\* Which of the three the display section shows (source lines 345, 370-409)
ViewOf(base, rows, n, dv) ==
    IF n <= 1 THEN SingleView(base, rows)
    ELSE IF has_date(rows) /\ Len(dv) = 1 THEN OneDateView(base, rows, dv)
    ELSE PivotView(base, rows, dv)

\* kind: "prompt" (nothing parsed yet), "single", "one_date", "pivot".
Render(df, n, multiselect) ==
    IF df = NoFrame \/ df.rows = <<>> THEN [BlankView EXCEPT !.kind = "prompt"]
    ELSE Only({ ViewOf(base, df.rows, n, dv) :
                  base \in { [BlankView EXCEPT
                                 !.total_amount = total_amount(df.rows),
                                 !.expense = expense_rollup(df.rows, multiselect)] },
                  dv \in { date_values(df.rows) } })

---------------------------------------------------------------------------
(* The tax resolver on its own: inputs drawn from TaxTokens x RateTexts *)

TaxTokens ==
    { <<>>, <<" ">>, <<"*", "*", "*">>, <<" ", "*", "*", "*", " ">>, <<"-", "-">>,
      <<"-">>, <<"*">>, <<"D">>, <<"W", "W", "W">>,
      <<"3", "2", ".", "4", "0">>, <<" ", "0">>, <<"0">>, <<"1", ",", "0", "0", "0">>,
      <<"-", "5">>, <<"n", "a", "n">>, <<"*", "*">>, <<"a">>, <<"-", "-", "-">>,
      <<"9", "%">>, <<",">> }

RateTexts ==
    { <<>>, <<"9", "%">>, <<"1", "0", "%">>, <<"0", "%">>, <<"m", "s">>,
      <<" ", "m", "s", " ">>, <<"b", "z">>, <<"b", "z", "s">>, <<"l", "s", "v">>,
      <<"l", "s">>, <<"m">>, <<"1", "3", "%">> }

\* The page at rest, for the specifications that only apply a function.
PageOff ==
    /\ uploaded_files = <<>>
    /\ df_all = NoFrame
    /\ n_files = 0
    /\ pc = "off"
    /\ pos = 1
    /\ df_one = <<>>
    /\ all_dfs = <<>>
    /\ seen_invoices = {}
    /\ accepted = <<>>
    /\ msgs = <<>>
    /\ view = BlankView
    /\ budget = 0

InitTax ==
    /\ PageOff
    /\ arg \in [token : TaxTokens, rate : RateTexts]
    /\ res = None
    /\ fpc = "call"

CallParseTaxAmount ==
    /\ fpc = "call"
    /\ res' = parse_tax_amount(arg.token, arg.rate)
    /\ fpc' = "done"
    /\ UNCHANGED arg
    /\ UNCHANGED bvars

NextTax == CallParseTaxAmount

SpecTax == InitTax /\ [][NextTax]_vars

---------------------------------------------------------------------------
(* The line extractor on its own: one text line in, its rows out *)

RECURSIVE Join(_, _)
Join(tokens, sep) ==
    IF tokens = <<>> THEN <<>>
    ELSE IF Len(tokens) = 1 THEN tokens[1]
    ELSE tokens[1] \o sep \o Join(Tail(tokens), sep)

\* Longest middle region of the lines tried.
MaxMiddle == 3

NameTokens == { <<"*", "v", "*", "b">>, <<"a", "b">>, <<"*", "v", "*">> }
MiddleTokens == { <<"u">>, <<"7">>, <<"5">> }
AmountTokens == { <<"9", ".", "5", "0">>, <<"x">>, <<"n", "a", "n">>, <<"1", ",", "0">> }
LineRateTokens == { <<"9", "%">>, <<"m", "s">> }
LineTaxTokens == { <<"0", ".", "4", "0">>, <<"*", "*", "*">>, <<"n", "a", "n">>, <<"x">> }

FullLines ==
    { Join(<<nm>> \o mid \o <<am, rt, tx>>, <<" ">>) :
        nm \in NameTokens, mid \in SeqsUpTo(MiddleTokens, MaxMiddle),
        am \in AmountTokens, rt \in LineRateTokens, tx \in LineTaxTokens }

\* Lines with fewer than four tokens, blank lines, lines with padding, and a
\* line whose category holds a space.
OddLines ==
    { <<>>, <<" ">>,
      Join(<<<<"*", "v">>, <<"w", "*", "b">>, <<"7">>, <<"9", ".", "5", "0">>, <<"9", "%">>,
             <<"0", ".", "4", "0">>>>, <<" ">>),
      Join(<<<<"*", "v", "*", "b">>, <<"9">>, <<"9", "%">>>>, <<" ">>),
      <<" ">> \o Join(<<<<"*", "v", "*", "b">>, <<"7">>, <<"9">>, <<"9", "%">>, <<"1">>>>,
                      <<" ", " ">>) \o <<" ">> }

Lines == FullLines \cup OddLines

\* The document the line is taken to stand in: page 1 of "a", with a header.
LineFile == <<"a">>
LineHeader == [NoHeader EXCEPT !.invoice_no = Str(<<"1">>)]

InitLine ==
    /\ PageOff
    /\ arg \in Lines
    /\ res = <<>>
    /\ fpc = "call"

CallParseLine ==
    /\ fpc = "call"
    /\ res' = LineRows(arg, 0, LineFile, LineHeader)
    /\ fpc' = "done"
    /\ UNCHANGED arg
    /\ UNCHANGED bvars

NextLine == CallParseLine

SpecLine == InitLine /\ [][NextLine]_vars

---------------------------------------------------------------------------
(* The documents that can be uploaded *)

\* 蔬菜, net 0.004, zero rate, tax placeholder: gross 0.004
LnVeg ==
    <<"*", "s", "c", "*", "b", " ", "0", ".", "0", "0", "4", " ", "m", "s", " ", "*", "*", "*">>

\* 植物油, gross 0.004
LnOil ==
    <<"*", "z", "w", "y", "*", "c", " ", "0", ".", "0", "0", "4", " ", "m", "s", " ", "*", "*", "*">>

\* a category big_cat_map does not list, gross 2.10
LnTea ==
    <<"*", "y", "l", "*", "d", " ", "2", " ", "9", "%", " ", "0", ".", "1", "0">>

\* 海水产品, tax unknown: gross 6
LnSea ==
    <<"*", "h", "s", "c", "p", "*", "e", " ", "u", " ", "3", " ", "2", " ", "6", " ", "9", "%", " ", "x">>

\* 蔬菜, net unknown: gross missing
LnBad ==
    <<"*", "s", "c", "*", "f", " ", "x", " ", "9", "%", " ", "1">>

\* not a data line
LnNote ==
    <<"t", "o", "t", "a", "l", " ", "9">>

Date5 == Str(<<"2", "0", "2", "4", "Y", "1", "M", "5", "D">>)
Date6 == Str(<<"2", "0", "2", "4", "Y", "1", "M", "6", "D">>)

Hdr(no, date) == [NoHeader EXCEPT !.invoice_no = no, !.issue_date = date]

Doc(name, header, pages) == [name |-> name, header |-> header, pages |-> pages]

Library ==
    { Doc(<<"a">>, Hdr(Str(<<"1">>), Date5), << <<LnNote, LnVeg, LnTea>> >>),
      Doc(<<"b">>, Hdr(Str(<<"2">>), Date6), << <<LnOil>>, <<LnBad>> >>),
      Doc(<<"a">>, Hdr(Str(<<"3">>), NoStr), << <<LnSea>> >>),
      Doc(<<"a">>, NoHeader, << <<LnVeg>> >>),
      Doc(<<"b">>, Hdr(Str(<<"1">>), Date5), << <<LnTea>> >>),
      Doc(<<"b">>, NoHeader, << <<LnOil>> >>),
      Doc(<<"c">>, Hdr(Str(<<"2">>), Date6), << <<LnNote>> >>),
      Doc(<<"a">>, NoHeader, << <<LnTea>> >>),
      Doc(<<"c">>, NoHeader, <<>>) }

\* Documents uploaded over a session, all batches together.
MaxDocs == 3

---------------------------------------------------------------------------
(* The page: upload, the parse button's handler, the display section *)

Msg(kind, file) == [kind |-> kind, file |-> file]

Init ==
    /\ arg = <<>>
    /\ res = <<>>
    /\ fpc = "off"
    /\ uploaded_files = <<>>
    /\ df_all = NoFrame
    /\ n_files = 0
    /\ pc = "idle"
    /\ pos = 1
    /\ df_one = <<>>
    /\ all_dfs = <<>>
    /\ seen_invoices = {}
    /\ accepted = <<>>
    /\ msgs = <<>>
    /\ view = Render(NoFrame, 0, {})
    /\ budget = MaxDocs

\* The user changes the uploader's files; the script reruns without the button.
Upload(fs) ==
    /\ pc = "idle"
    /\ Len(fs) <= budget
    /\ uploaded_files' = fs
    /\ budget' = budget - Len(fs)
    /\ msgs' = <<>>
    /\ pc' = "display"
    /\ UNCHANGED <<df_all, n_files, pos, df_one, all_dfs, seen_invoices, accepted, view>>
    /\ UNCHANGED fvars

\* st.button pressed with no file uploaded (source lines 274-277)
PressEmpty ==
    /\ pc = "idle"
    /\ uploaded_files = <<>>
    /\ msgs' = <<Msg("warning_no_upload", <<>>)>>
    /\ df_all' = NoFrame
    /\ n_files' = 0
    /\ pc' = "display"
    /\ UNCHANGED <<uploaded_files, pos, df_one, all_dfs, seen_invoices, accepted, view,
                   budget>>
    /\ UNCHANGED fvars

\* st.button pressed with files: the loop starts (source lines 279-280)
PressStart ==
    /\ pc = "idle"
    /\ uploaded_files # <<>>
    /\ all_dfs' = <<>>
    /\ seen_invoices' = {}
    /\ accepted' = <<>>
    /\ pos' = 1
    /\ msgs' = <<>>
    /\ pc' = "loop"
    /\ UNCHANGED <<uploaded_files, df_all, n_files, df_one, view, budget>>
    /\ UNCHANGED fvars

\* df_one = parse_invoice_pdf(f) returns (source line 283)
LoopParse ==
    /\ pc = "loop"
    /\ pos <= Len(uploaded_files)
    /\ \E p \in { parse_invoice_pdf(uploaded_files[pos]) } :
          /\ ~p.raised
          /\ df_one' = p.rows
    /\ pc' = "parsed"
    /\ UNCHANGED <<uploaded_files, df_all, n_files, pos, all_dfs, seen_invoices,
                   accepted, msgs, view, budget>>
    /\ UNCHANGED fvars

\* parse_invoice_pdf(f) raises: the script run ends there with the traceback on
\* the page, nothing below it runs, the handler's locals are gone and
\* st.session_state keeps what it held.
LoopRaise ==
    /\ pc = "loop"
    /\ pos <= Len(uploaded_files)
    /\ parse_invoice_pdf(uploaded_files[pos]).raised
    /\ msgs' = Append(msgs, Msg("exception", uploaded_files[pos].name))
    /\ view' = BlankView
    /\ pc' = "idle"
    /\ pos' = 1
    /\ df_one' = <<>>
    /\ all_dfs' = <<>>
    /\ seen_invoices' = {}
    /\ accepted' = <<>>
    /\ UNCHANGED <<uploaded_files, df_all, n_files, budget>>
    /\ UNCHANGED fvars

\* df_one.empty: warning, continue (source lines 284-286)
LoopEmpty ==
    /\ pc = "parsed"
    /\ df_one = <<>>
    /\ msgs' = Append(msgs, Msg("warning_no_rows", uploaded_files[pos].name))
    /\ pos' = pos + 1
    /\ pc' = "loop"
    /\ UNCHANGED <<uploaded_files, df_all, n_files, df_one, all_dfs, seen_invoices,
                   accepted, view, budget>>
    /\ UNCHANGED fvars

\* The warning of a duplicate names the invoice when its number or date is
\* known, the file otherwise (source lines 308-317).
DuplicateMsg(rows, fname) ==
    Msg(IF Truthy(FirstPresent([k \in 1..Len(rows) |-> rows[k].invoice_no]))
           \/ Truthy(FirstPresent([k \in 1..Len(rows) |-> rows[k].issue_date]))
        THEN "warning_duplicate_invoice" ELSE "warning_duplicate_file",
        fname)

\* A loop that never finds a key.
IsSeenNever(seen, key) == FALSE

\* key in seen_invoices
IsSeen(seen, key) == key \in seen

\* seen_invoices.add(key)
SeenAdd(seen, key) == seen \cup {key}

\* key in seen_invoices: warning, continue (source lines 307-318)
LoopDuplicate ==
    /\ pc = "parsed"
    /\ df_one # <<>>
    /\ IsSeen(seen_invoices, InvoiceKey(df_one, uploaded_files[pos].name))
    /\ msgs' = Append(msgs, DuplicateMsg(df_one, uploaded_files[pos].name))
    /\ pos' = pos + 1
    /\ pc' = "loop"
    /\ UNCHANGED <<uploaded_files, df_all, n_files, df_one, all_dfs, seen_invoices,
                   accepted, view, budget>>
    /\ UNCHANGED fvars

\* A new identity: remembered and accumulated (source lines 320-321)
LoopAccept ==
    /\ pc = "parsed"
    /\ df_one # <<>>
    /\ \E key \in { InvoiceKey(df_one, uploaded_files[pos].name) } :
          /\ ~IsSeen(seen_invoices, key)
          /\ seen_invoices' = SeenAdd(seen_invoices, key)
    /\ all_dfs' = Append(all_dfs, df_one)
    /\ accepted' = Append(accepted, pos)
    /\ pos' = pos + 1
    /\ pc' = "loop"
    /\ UNCHANGED <<uploaded_files, df_all, n_files, df_one, msgs, view, budget>>
    /\ UNCHANGED fvars

RECURSIVE Concat(_)
Concat(frames) == IF frames = <<>> THEN <<>> ELSE Head(frames) \o Concat(Tail(frames))

\* What the handler stores when some frame was accepted (source lines 328-330)
Stored(frames) == [df |-> Frame(Concat(frames)), n |-> Len(frames)]

\* After the loop (source lines 323-331)
Commit ==
    /\ pc = "loop"
    /\ pos > Len(uploaded_files)
    /\ IF all_dfs = <<>>
       THEN /\ msgs' = Append(msgs, Msg("error_all_failed", <<>>))
            /\ df_all' = NoFrame
            /\ n_files' = 0
       ELSE /\ \E st \in { Stored(all_dfs) } :
                  /\ df_all' = st.df
                  /\ n_files' = st.n
            /\ msgs' = Append(msgs, Msg("success", <<>>))
    /\ pc' = "display"
    /\ UNCHANGED <<uploaded_files, pos, df_one, all_dfs, seen_invoices, accepted, view,
                   budget>>
    /\ UNCHANGED fvars

\* The multiselect offers a choice only when df_big has several dates.
Multiselects(df) ==
    IF df = NoFrame THEN { {} }
    ELSE Only({ IF Len(opts) >= 2 THEN SUBSET SeqToSet(opts) ELSE { {} } :
                  opts \in { date_options(df.rows) } })

\* The display section runs to the end of the script; the handler's locals are gone.
Display(multiselect) ==
    /\ pc = "display"
    /\ view' = Render(df_all, n_files, multiselect)
    /\ pc' = "idle"
    /\ pos' = 1
    /\ df_one' = <<>>
    /\ all_dfs' = <<>>
    /\ seen_invoices' = {}
    /\ accepted' = <<>>
    /\ UNCHANGED <<uploaded_files, df_all, n_files, msgs, budget>>
    /\ UNCHANGED fvars

Next ==
    \/ \E fs \in SeqsUpTo(Library, budget) : Upload(fs)
    \/ PressEmpty
    \/ PressStart
    \/ LoopParse
    \/ LoopRaise
    \/ LoopEmpty
    \/ LoopDuplicate
    \/ LoopAccept
    \/ Commit
    \/ \E m \in Multiselects(df_all) : Display(m)

Spec == Init /\ [][Next]_vars

---------------------------------------------------------------------------
(* parse_tax_amount: the resolver's policy *)

ZeroRateText(rate) == \E kw \in zero_rate_keywords : Contains(rate, kw)

---------------------------------------------------------------------------
(* The line extractor: the records of one line *)

\* The tokens of the line, as the extractor splits it.
LineTokens == Split(Strip(arg))

\* C5: for every record the extractor emits, gross is net + tax when both are
\* known, net when net is known and tax is unknown, and unknown when net is
\* unknown; net is the parse of the third-to-last token.
C5_GrossLaw ==
    fpc = "done" =>
        \A k \in 1..Len(res) :
            /\ (IsNum(res[k].amount) /\ IsNum(res[k].tax_amount))
                  => res[k].gross = Num(res[k].amount.v + res[k].tax_amount.v)
            /\ (IsNum(res[k].amount) /\ ~IsNum(res[k].tax_amount))
                  => res[k].gross = res[k].amount
            /\ ~IsNum(res[k].amount) => ~IsNum(res[k].gross)
            /\ res[k].amount = ToNumeric(safe_float(LineTokens[Len(LineTokens) - 2]))

\* C14: every line accepted as a data line yields a record whose category is
\* the text between the first two asterisks of the line, never 未分类, also
\* when that text holds a space or a space follows the second asterisk.
C14_CategoryOfLine ==
    (fpc = "done" /\ res # <<>>) =>
        /\ res[1].category = Strip(CatItemMatch(Strip(arg)).cat)
        /\ res[1].category # Uncategorized

\* The line has a record whose middle region is one numeric token.
OneNumericMiddle ==
    /\ fpc = "done"
    /\ res # <<>>
    /\ Len(LineTokens) = 5
    /\ safe_float(LineTokens[2]) # None

\* C7 as the code has it: a middle region of one numeric token gives that number
\* as the quantity, the token's own text as the unit (the first middle token is
\* the unit when none was found), and no unit price.
C7_SingleNumericMiddle ==
    OneNumericMiddle =>
        /\ res[1].qty = safe_float(LineTokens[2])
        /\ res[1].unit = Str(LineTokens[2])
        /\ res[1].price = NaN

\* C7 as the specification states it: the unit is unknown.
C7_UnitUnknown ==
    OneNumericMiddle =>
        /\ res[1].qty = safe_float(LineTokens[2])
        /\ res[1].unit = NoStr
        /\ res[1].price = NaN

\* The line "*v*b 7 9.50 9% 0.40" gave quantity 7 and the unit "7".
C7_Witness ==
    /\ OneNumericMiddle
    /\ LineTokens[2] = <<"7">>
    /\ res[1].qty = Num(7 * Scale)
    /\ res[1].unit = Str(<<"7">>)

\* The middle region of the line: the tokens between the name and the amount.
MiddleOfLine == SubSeq(LineTokens, 2, Len(LineTokens) - 3)

\* The positions of the numeric tokens of the middle region.
NumPos == { i \in 1..Len(MiddleOfLine) : safe_float(MiddleOfLine[i]) # None }

Largest(S) == CHOOSE x \in S : \A y \in S : y <= x

\* The unit for the quantity at position q: the token before it, else the
\* first middle token.
UnitBefore(q) == IF q > 1 THEN Str(MiddleOfLine[q - 1]) ELSE Str(MiddleOfLine[1])

\* C11: for every middle token sequence, with two or more numeric tokens the
\* price is the last numeric token, the quantity the second-to-last and the
\* unit the token before the quantity; with one numeric token it is the
\* quantity, the unit is the token before it and the price is unknown; when
\* no unit was found that way and the region is not empty the unit is the
\* first middle token; with an empty region all three are unknown.
C11_MiddleRule ==
    (fpc = "done" /\ res # <<>>) =>
        /\ Cardinality(NumPos) >= 2 =>
              /\ res[1].price = safe_float(MiddleOfLine[Largest(NumPos)])
              /\ res[1].qty =
                    safe_float(MiddleOfLine[Largest(NumPos \ {Largest(NumPos)})])
              /\ res[1].unit = UnitBefore(Largest(NumPos \ {Largest(NumPos)}))
        /\ Cardinality(NumPos) = 1 =>
              /\ res[1].qty = safe_float(MiddleOfLine[Largest(NumPos)])
              /\ res[1].unit = UnitBefore(Largest(NumPos))
              /\ res[1].price = NaN
        /\ (NumPos = {} /\ MiddleOfLine # <<>>) =>
              /\ res[1].unit = Str(MiddleOfLine[1])
              /\ res[1].qty = NaN
              /\ res[1].price = NaN
        /\ MiddleOfLine = <<>> =>
              /\ res[1].unit = NoStr
              /\ res[1].qty = NaN
              /\ res[1].price = NaN

\* The middle region ["u", "7", "5"] gave unit "u", quantity 7 and price 5.
C11_Witness ==
    /\ fpc = "done"
    /\ res # <<>>
    /\ MiddleOfLine = << <<"u">>, <<"7">>, <<"5">> >>
    /\ res[1].unit = Str(<<"u">>)
    /\ res[1].qty = Num(7 * Scale)
    /\ res[1].price = Num(5 * Scale)

---------------------------------------------------------------------------
(* The batch loop: identity keys *)

\* The documents the loop has finished with.
Processed == 1..(pos - 1)

IsAccepted(q) == \E k \in 1..Len(accepted) : accepted[k] = q

\* The records document q of the batch yields.
DocRows(q) == parse_invoice_pdf(uploaded_files[q]).rows

DocName(q) == uploaded_files[q].name

\* The identity tuple of document q, as its first page states it.
HeaderIdentity(q) ==
    << uploaded_files[q].header.invoice_no, uploaded_files[q].header.issue_date,
       uploaded_files[q].header.buyer_name, uploaded_files[q].header.seller_name >>

HasIdentity(q) == \E c \in 1..4 : Truthy(HeaderIdentity(q)[c])

DocKey(q) == InvoiceKey(DocRows(q), DocName(q))

\* C1: of the documents of a batch that yield a data line and share an identity
\* tuple with a non-empty component, the first is retained and every later one
\* is rejected; no two accepted documents share an identity key.
C1_FirstIdentityRetained ==
    /\ \A q \in Processed :
         (DocRows(q) # <<>> /\ HasIdentity(q)) =>
            ( IsAccepted(q) <=>
                ~\E p \in Processed :
                    p < q /\ DocRows(p) # <<>> /\ HeaderIdentity(p) = HeaderIdentity(q) )
    /\ \A i \in 1..Len(accepted) : \A j \in 1..Len(accepted) :
         i # j => DocKey(accepted[i]) # DocKey(accepted[j])
    /\ seen_invoices = { DocKey(accepted[i]) : i \in 1..Len(accepted) }

\* A batch of two files with different names and one identity: the first kept,
\* the second rejected as a duplicate invoice.
C1_Witness ==
    /\ pc = "display"
    /\ Len(uploaded_files) = 2
    /\ DocName(1) # DocName(2)
    /\ HasIdentity(1)
    /\ HeaderIdentity(1) = HeaderIdentity(2)
    /\ DocRows(2) # <<>>
    /\ accepted = <<1>>
    /\ msgs[1].kind = "warning_duplicate_invoice"

\* C2: a document with data lines and none of the four header fields is keyed
\* by its file name; the key differs from that of every document with another
\* file name and from every 4-tuple key, so the document is rejected exactly
\* when an earlier accepted header-less document has its file name.
C2_FileNameKey ==
    \A q \in Processed :
        (DocRows(q) # <<>> /\ ~HasIdentity(q)) =>
            /\ DocKey(q) = <<"FILE_ONLY", DocName(q)>>
            /\ \A p \in Processed :
                 (DocRows(p) # <<>> /\ (HasIdentity(p) \/ DocName(p) # DocName(q)))
                    => DocKey(p) # DocKey(q)
            /\ IsAccepted(q) <=>
                 ~\E p \in Processed :
                     p < q /\ IsAccepted(p) /\ ~HasIdentity(p) /\ DocName(p) = DocName(q)

\* Three header-less files named a, b, a: the second a, with other lines than
\* the first, is rejected on its name; b is kept.
C2_Witness ==
    /\ pc = "display"
    /\ Len(uploaded_files) = 3
    /\ \A q \in 1..3 : ~HasIdentity(q) /\ DocRows(q) # <<>>
    /\ DocName(1) = DocName(3)
    /\ DocName(1) # DocName(2)
    /\ DocRows(1) # DocRows(3)
    /\ accepted = <<1, 2>>
    /\ msgs[1].kind = "warning_duplicate_file"

---------------------------------------------------------------------------
(* The batch loop: one document after the other *)

\* The keys of the documents accepted so far.
AcceptedKeys == { DocKey(accepted[i]) : i \in 1..Len(accepted) }

\* C8: in a batch every remaining document is parsed, whatever the documents
\* before it yielded; it is accepted exactly when it yields a data line and its
\* key is not among the keys accepted before it; accepted documents accumulate
\* in upload order; a document without data lines adds nothing to the seen set.
C8_EveryDocumentProcessed ==
    [][ /\ (pc = "loop" /\ pos <= Len(uploaded_files)) =>
              (pc' = "parsed" /\ df_one' = DocRows(pos))
        /\ pc = "parsed" =>
              /\ pc' = "loop"
              /\ pos' = pos + 1
              /\ IF df_one # <<>> /\ InvoiceKey(df_one, DocName(pos)) \notin AcceptedKeys
                 THEN accepted' = Append(accepted, pos) /\ all_dfs' = Append(all_dfs, df_one)
                 ELSE accepted' = accepted /\ all_dfs' = all_dfs
              /\ df_one = <<>> => seen_invoices' = seen_invoices ]_vars

\* The run of the script that pressing the button started has ended.
PressEnded == pc = "idle" /\ msgs # <<>>

\* No document of the batch yields a data line (a batch of duplicates only
\* cannot be: its first document with data lines is accepted).
AllExcluded == \A q \in 1..Len(uploaded_files) : DocRows(q) = <<>>

\* C9: a batch without documents, or whose documents are all excluded, ends
\* with a batch-level warning or error and with the session state cleared;
\* the stored record set is none exactly when the stored count is 0.
C9_EmptyBatchClears ==
    /\ (PressEnded /\ AllExcluded) =>
          /\ df_all = NoFrame
          /\ n_files = 0
          /\ msgs[Len(msgs)].kind \in {"warning_no_upload", "error_all_failed"}
    /\ df_all = NoFrame <=> n_files = 0

\* The frames a press accepts from document q of the batch fs on, given the
\* keys seen before it: what the batch alone determines.
RECURSIVE AcceptedFrom(_, _, _)
AcceptedFrom(fs, q, seen) ==
    IF q > Len(fs) THEN <<>>
    ELSE LET rows == parse_invoice_pdf(fs[q]).rows
             key == InvoiceKey(rows, fs[q].name)
         IN  IF rows = <<>> \/ key \in seen THEN AcceptedFrom(fs, q + 1, seen)
             ELSE <<rows>> \o AcceptedFrom(fs, q + 1, seen \cup {key})

\* C13: each press starts with an empty seen-identity set, and when the batch
\* has a document to accept the press leaves as the session's record set
\* exactly the records of the documents accepted in that batch, and as the
\* count their number, whatever the batches before it were.
C13_LatestBatchOnly ==
    /\ (pc = "loop" /\ pos = 1) => (seen_invoices = {} /\ all_dfs = <<>>)
    /\ (PressEnded /\ AcceptedFrom(uploaded_files, 1, {}) # <<>>) =>
          /\ df_all = Frame(Concat(AcceptedFrom(uploaded_files, 1, {})))
          /\ n_files = Len(AcceptedFrom(uploaded_files, 1, {}))

---------------------------------------------------------------------------
(* The display section *)

\* The page shows the stored records.
Shown == pc = "idle" /\ view.kind \in {"single", "one_date", "pivot"}

\* The values of the secondary dimension over the stored records.
DimValues == { DimOf(df_all.rows, df_all.rows[k]) : k \in 1..Len(df_all.rows) }

\* C3: when the category x dimension table is built, its bottom-right cell is
\* the sum of the amount column over all accepted records, also when some
\* documents have an issue date and others have none.
C3_GrandTotal ==
    (pc = "idle" /\ view.kind = "pivot") =>
        /\ view.pivot_sum.grand = SumGross(df_all.rows)
        /\ view.pivot_sum.grand = view.total_amount

\* C4: when the secondary dimension has exactly one value over the accepted
\* records, the result is the plain category rollup of the records, with no
\* total row and no total column, for the date and for the file-name dimension.
C4_SingleValuePlainRollup ==
    (Shown /\ Cardinality(DimValues) = 1) =>
        /\ view.kind \in {"single", "one_date"}
        /\ view.summary = category_rollup(df_all.rows)
        /\ view.pivot_sum = EmptyPivot

\* C12: when the cross-tabulation is built, the category x dimension table and
\* the transposed dimension x category table carry the same totals: the same
\* grand total, the same total per category and the same total per dimension
\* value, the empty short date included.
C12_TransposedTotals ==
    (pc = "idle" /\ view.kind = "pivot") =>
        /\ view.pivot_sum.grand = view.pivot_view.grand
        /\ SeqToSet(view.pivot_sum.index) = SeqToSet(view.pivot_view.columns)
        /\ \A c \in SeqToSet(view.pivot_sum.index) :
              view.pivot_sum.row_total[c] = view.pivot_view.col_total[c]
        /\ SeqToSet(view.pivot_sum.columns) = SeqToSet(view.pivot_view.index)
        /\ \A d \in SeqToSet(view.pivot_sum.columns) :
              view.pivot_sum.col_total[d] = view.pivot_view.row_total[d]

---------------------------------------------------------------------------
(* The expense rollup *)

Mapped(r) == big_cat_map(r.category) # ""

\* The exact amount of a bucket over the records selected.
BucketExact(bucket) ==
    SumGross(SelectSeq(view.expense.selected, LAMBDA r : big_cat_map(r.category) = bucket))

\* 0.01
Cent == Pow10(FracDigits - 2)

\* C10 as the code has it: the table is built when some stored record maps to a
\* bucket and not otherwise; it holds exactly the four buckets in the fixed
\* order, each with its sum over the selected mapped records rounded to two
\* decimals, 0 for a bucket without a record; unmapped records are in no
\* bucket; the total shown is the sum of the four rounded amounts.
C10_ExpenseRollup ==
    Shown =>
        /\ view.expense.shown <=> \E k \in 1..Len(df_all.rows) : Mapped(df_all.rows[k])
        /\ view.expense.shown =>
              /\ [k \in 1..Len(view.expense.table) |-> view.expense.table[k].bucket] = order
              /\ view.expense.selected # <<>>
              /\ \A k \in 1..Len(view.expense.selected) :
                    /\ Mapped(view.expense.selected[k])
                    /\ \E j \in 1..Len(df_all.rows) : df_all.rows[j] = view.expense.selected[k]
              /\ \A k \in 1..Len(order) :
                    /\ view.expense.table[k].no = k
                    /\ view.expense.table[k].amount % Cent = 0
                    /\ 2 * (view.expense.table[k].amount - BucketExact(order[k])) <= Cent
                    /\ 2 * (BucketExact(order[k]) - view.expense.table[k].amount) <= Cent
                    /\ (\A j \in 1..Len(view.expense.selected) :
                            big_cat_map(view.expense.selected[j].category) # order[k])
                          => view.expense.table[k].amount = 0
              /\ view.expense.food_total =
                    SumInts([k \in 1..Len(order) |-> view.expense.table[k].amount])

\* C10 as the specification states it, read for the batches with a mapped
\* record: the four buckets are returned in the fixed order and their sums add
\* up to the amount total of the mapped records selected.
C10_SumsAddUp ==
    (Shown /\ \E k \in 1..Len(df_all.rows) : Mapped(df_all.rows[k])) =>
        /\ view.expense.shown
        /\ [k \in 1..Len(view.expense.table) |-> view.expense.table[k].bucket] = order
        /\ view.expense.food_total = SumGross(view.expense.selected)

\* A table with a bucket without records, a bucket whose amount was rounded,
\* and a stored record of an unmapped category.
C10_Witness ==
    /\ Shown
    /\ view.expense.shown
    /\ \E k \in 1..Len(order) :
          /\ BucketExact(order[k]) # 0
          /\ view.expense.table[k].amount # BucketExact(order[k])
    /\ \E k \in 1..Len(order) :
          \A j \in 1..Len(view.expense.selected) :
              big_cat_map(view.expense.selected[j].category) # order[k]
    /\ \E k \in 1..Len(df_all.rows) : ~Mapped(df_all.rows[k])

===========================================================================
